---------------------------- MODULE Spec2Model ----------------------------
(***************************************************************************)
(* A model of the image comparison engine of cursor-talk-to-figma-mcp:     *)
(* ImageComparison.compareImages and generateDifferenceDescription         *)
(* (src/unnamed/part_000), as called by capture_and_compare.js, and of the *)
(* capture instances that produce its images: WebCapture and FigmaCapture  *)
(* (src/src/talk_to_figma_mcp), with their browser and their pages.        *)
(*                                                                         *)
(* compareImages is an async function: it runs synchronously up to each    *)
(* await, so a call is modelled as one action per synchronous segment.     *)
(* Calls of one process interleave only at the awaits.                     *)
(*                                                                         *)
(* Numbers: a threshold is held in tenths (1 is 0.1, 20 is 2.0, -5 is      *)
(* -0.5).  A percentage is held as the exact quotient num/den; den = 0 is  *)
(* the NaN that 0/0 gives in JavaScript.                                   *)
(* An optional value is <<>> when it is undefined and <<v>> otherwise.     *)
(***************************************************************************)
EXTENDS Integers, Sequences, FiniteSets, TLC

\* Largest width and height of the image stored at a.png and b.png.
MaxDim == 2
\* Largest diffPercentage, in thousandths of a percent, handed to
\* generateDifferenceDescription on its own.
MaxMilliPct == 21000
\* Largest width and height of the stored images where the comparison of an
\* image with itself is checked.
MaxSelfDim == 3
\* Number of calls made on the capture instance.
MaxCalls == 3

VARIABLES
    fs,           \* the file system: path -> file content
    pc,           \* per call: the await the call is suspended at
    params,       \* per call: the ImageComparisonParams it was called with
    local,        \* per call: the local constants of compareImages
    outcome,      \* per call: what the call returned or threw
    snapshot,     \* per call: the file system when the call was made (history)
    wrote,        \* per call: whether the call has written its output (history)
    lastWriter,   \* per path: the call that wrote the path last (history)
    descInput,    \* the ComparisonResult handed to generateDifferenceDescription
    description,  \* the text generateDifferenceDescription returned
    class,        \* the class of the capture instance: WebCapture or FigmaCapture
    browser,      \* this.browser of the capture instance
    openBrowsers, \* the browsers that were launched and are not closed
    openPages,    \* the pages that were opened and are not closed
    calls,        \* the number of calls made on the capture instance so far
    cpc,          \* per task: the await its call on the instance is suspended at
    cparams,      \* per task: the capture parameters of its call
    clocal,       \* per task: the browser and the page its call works on
    coutcome      \* per task: what its last call returned or threw

vars == <<fs, pc, params, local, outcome, snapshot, wrote, lastWriter,
          descInput, description, class, browser, openBrowsers, openPages,
          calls, cpc, cparams, clocal, coutcome>>

callVars == <<fs, pc, params, local, outcome, snapshot, wrote, lastWriter>>
descVars == <<descInput, description>>
capVars == <<class, browser, openBrowsers, openPages, calls, cpc, cparams,
             clocal, coutcome>>

--------------------------------------------------------------------------
(* Values *)

Undefined == <<>>
Some(v) == <<v>>

Min(a, b) == IF a <= b THEN a ELSE b

\* x || 0 on an optional number.
OrZero(x) == IF x = Undefined \/ x = Some(0) THEN 0 ELSE x[1]

\* The truthiness test of `if (params.outputPath)`.
Truthy(x) == x # Undefined /\ x # Some("")

Calls == {"A", "B"}

\* File contents.  An image file holds its header (width, height: optional,
\* as sharp's metadata() reports them) and its pixels, row by row.
Absent == [kind |-> "absent", width |-> Undefined, height |-> Undefined, px |-> <<>>]
Corrupt == [kind |-> "corrupt", width |-> Undefined, height |-> Undefined, px |-> <<>>]
Image(w, h, px) == [kind |-> "image", width |-> w, height |-> h, px |-> px]

\* The pixels of the stored test images: a striped one and a plain one.
Striped(w, h) == [i \in 1..(w * h) |-> i % 3]
Plain(w, h) == [i \in 1..(w * h) |-> 0]

InputPaths == {"a.png", "b.png", "nodim.png", "bad.png", "out.png"}
Paths == InputPaths
\* Output locations: out.png is writable, nodir/out.png is not (its
\* directory does not exist), "" is the empty string.
OutputPaths == {"out.png", "nodir/out.png", ""}
Writable(path) == path \in Paths

\* The file systems a run may start from.
FilesUpTo(d) ==
    { [p \in Paths |->
          CASE p = "a.png" -> Image(Some(w), Some(h), Striped(w, h))
            [] p = "b.png" -> Image(Some(1), Some(d), Plain(1, d))
            [] p = "nodim.png" -> Image(Undefined, Undefined, <<>>)
            [] p = "bad.png" -> Corrupt
            [] OTHER -> Absent]
      : w \in 1..d, h \in 1..d }
InitialFs == FilesUpTo(MaxDim)

NoFiles == [p \in Paths |-> Absent]

Thresholds == {Undefined, Some(1), Some(-5), Some(20)}

ParamsSet ==
    [image1Path : InputPaths, image2Path : InputPaths,
     threshold : Thresholds,
     outputPath : {Undefined} \cup {Some(p) : p \in OutputPaths}]

\* ImageComparisonSchema: threshold is a number in [0, 1], optional, with the
\* default 0.1.  compareImages takes its parameter type from the schema and
\* never parses its argument with it.
SchemaAccepts(p) ==
    p.threshold = Undefined \/ (0 <= p.threshold[1] /\ p.threshold[1] <= 10)
SchemaParse(p) ==
    [p EXCEPT !.threshold = IF @ = Undefined THEN Some(1) ELSE @]

NoParams == [image1Path |-> "", image2Path |-> "", threshold |-> Undefined,
             outputPath |-> Undefined]


--------------------------------------------------------------------------
(* The library calls, as compareImages uses them *)

\* readFileSync(path): the bytes of the file; throws when there is none.
ReadFileThrows(files, path) == files[path].kind = "absent"
ReadFile(files, path) == files[path]

\* sharp(buffer).metadata(): rejects when the bytes are no image.
MetadataRejects(buffer) == buffer.kind # "image"
SharpMetadata(buffer) == [width |-> buffer.width, height |-> buffer.height]

\* sharp(buffer).resize(w, h).raw().toBuffer(): the w * h pixels of the
\* resized image, sampled from the source (the source itself when the size
\* is unchanged; black where the source holds no pixel).
Resize(buffer, w, h) ==
    LET sw == OrZero(buffer.width)
        sh == OrZero(buffer.height)
    IN  [i \in 1..(w * h) |->
            LET x == (i - 1) % w
                y == (i - 1) \div w
                at == ((y * sh) \div h) * sw + ((x * sw) \div w) + 1
            IN  IF at \in DOMAIN buffer.px THEN buffer.px[at] ELSE 0]

\* pixelmatch: a pixel counts as different when its colour delta exceeds
\* the threshold's maxDelta (which grows with the square of the threshold).
PixelDiffers(c1, c2, t) == 25 * (c1 - c2) * (c1 - c2) > t * t

MarkColor == 2

Pixelmatch(img1, img2, n, t) ==
    LET mask == [i \in 1..n |-> IF PixelDiffers(img1[i], img2[i], t)
                                THEN MarkColor ELSE 0]
    IN  [diffPixels |-> Cardinality({i \in 1..n : mask[i] = MarkColor}),
         diffBuffer |-> mask]

\* The library's own default threshold, 0.1.
PixelmatchDefault == 1

\* compareImages hands { threshold: params.threshold } to pixelmatch.  With
\* the threshold undefined the library either falls back to its default or
\* computes a NaN maxDelta that no delta exceeds, depending on its version.
PixelmatchOutcomes(img1, img2, n, threshold) ==
    IF threshold = Undefined
    THEN {Pixelmatch(img1, img2, n, PixelmatchDefault),
          [diffPixels |-> 0, diffBuffer |-> [i \in 1..n |-> 0]]}
    ELSE {Pixelmatch(img1, img2, n, threshold[1])}

\* sharp(diffBuffer, {raw}).png().toBuffer(): the PNG file of the mask.
PngEncode(raw, w, h) == Image(Some(w), Some(h), raw)

\* buffer.toString("base64")
Base64(buffer) == [base64 |-> buffer]
Base64Decode(text) == text.base64

--------------------------------------------------------------------------
(* The computations of compareImages *)

TargetDimLarger(d1, d2) ==
    IF OrZero(d1) >= OrZero(d2) THEN OrZero(d1) ELSE OrZero(d2)
TargetDim(d1, d2) == Min(OrZero(d1), OrZero(d2))

DiffPercentageTruncated(diffPixels, totalPixels) ==
    IF totalPixels = 0
    THEN [num |-> 0, den |-> 0]
    ELSE [num |-> (diffPixels * 100) \div totalPixels, den |-> 1]
\* (diffPixels / totalPixels) * 100
DiffPercentage(diffPixels, totalPixels) ==
    [num |-> diffPixels * 100, den |-> totalPixels]

ResultMetadataOfFootprint(info1, info2, p) ==
    LET size == [width |-> Min(OrZero(info1.width), OrZero(info2.width)),
                 height |-> Min(OrZero(info1.height), OrZero(info2.height))]
    IN  [image1Size |-> size, image2Size |-> size, threshold |-> p.threshold]
ResultMetadata(info1, info2, p) ==
    [image1Size |-> [width |-> OrZero(info1.width), height |-> OrZero(info1.height)],
     image2Size |-> [width |-> OrZero(info2.width), height |-> OrZero(info2.height)],
     threshold |-> p.threshold]

ComparisonResult(diffPixels, tw, th, png, info1, info2, p) ==
    [diffPixels |-> diffPixels,
     totalPixels |-> tw * th,
     diffPercentage |-> DiffPercentage(diffPixels, tw * th),
     diffImageData |-> Base64(png),
     metadata |-> ResultMetadata(info1, info2, p)]

NoResult ==
    [diffPixels |-> 0, totalPixels |-> 0,
     diffPercentage |-> [num |-> 0, den |-> 0],
     diffImageData |-> Base64(Absent),
     metadata |-> [image1Size |-> [width |-> 0, height |-> 0],
                   image2Size |-> [width |-> 0, height |-> 0],
                   threshold |-> Undefined]]

\* The catch block: every failure is rethrown as a plain Error whose message
\* is a fixed prefix followed by the message of the failure caught.
ErrorName == "Error"
ThrownUnwrapped(cause) ==
    [status |-> "threw",
     error |-> [name |-> cause, prefix |-> "", cause |-> cause],
     result |-> NoResult]
Thrown(cause) ==
    [status |-> "threw",
     error |-> [name |-> ErrorName, prefix |-> "compare failed: ", cause |-> cause],
     result |-> NoResult]
Returned(result) ==
    [status |-> "returned",
     error |-> [name |-> "", prefix |-> "", cause |-> ""],
     result |-> result]
Pending ==
    [status |-> "pending",
     error |-> [name |-> "", prefix |-> "", cause |-> ""],
     result |-> NoResult]

NoLocal ==
    [image1Buffer |-> Absent, image2Buffer |-> Absent,
     image1Info |-> [width |-> Undefined, height |-> Undefined],
     image2Info |-> [width |-> Undefined, height |-> Undefined],
     targetWidth |-> 0, targetHeight |-> 0,
     image1Resized |-> <<>>, image2Resized |-> <<>>,
     diffBuffer |-> <<>>, diffPixels |-> 0]

--------------------------------------------------------------------------
(* generateDifferenceDescription *)

\* q < k for a quotient q and an integer k; false when q is NaN, as every
\* comparison with NaN is.
LessThan(q, k) == q.den # 0 /\ q.num < k * q.den

\* q.toFixed(digits), as the count of 10^-digits units in a tuple; the empty
\* tuple is the text "NaN".
Pow10(d) == IF d = 0 THEN 1 ELSE IF d = 1 THEN 10 ELSE 100
ToFixed(q, digits) ==
    IF q.den = 0
    THEN <<>>
    ELSE <<(2 * q.num * Pow10(digits) + q.den) \div (2 * q.den)>>

\* metadata.threshold * 100; NaN when the threshold is undefined.
ThresholdTimes100(threshold) ==
    IF threshold = Undefined
    THEN [num |-> 0, den |-> 0]
    ELSE [num |-> threshold[1] * 100, den |-> 10]

Line(kind, text, value) == [kind |-> kind, text |-> text, value |-> value]

SeverityLineInclusive(p) ==
    IF p.den # 0 /\ p.num <= p.den
    THEN Line("severity", "negligible", <<>>)
    ELSE IF LessThan(p, 5) THEN Line("severity", "minor", <<>>)
    ELSE IF LessThan(p, 20) THEN Line("severity", "substantial", <<>>)
    ELSE Line("severity", "major", <<>>)
\* The severity line, by the breakpoints 1, 5 and 20.
SeverityLine(p) ==
    IF LessThan(p, 1) THEN Line("severity", "negligible", <<>>)
    ELSE IF LessThan(p, 5) THEN Line("severity", "minor", <<>>)
    ELSE IF LessThan(p, 20) THEN Line("severity", "substantial", <<>>)
    ELSE Line("severity", "major", <<>>)

NoiseCauses ==
    <<Line("cause", "rendering noise", <<>>),
      Line("cause", "compression artifacts", <<>>),
      Line("cause", "color profile", <<>>)>>
PositionCauses ==
    <<Line("cause", "element position", <<>>),
      Line("cause", "font rendering", <<>>),
      Line("cause", "color and opacity", <<>>)>>
LayoutCauses ==
    <<Line("cause", "layout structure", <<>>),
      Line("cause", "content change", <<>>),
      Line("cause", "elements added or removed", <<>>)>>

CauseLinesBySeverity(p) ==
    IF LessThan(p, 1) THEN NoiseCauses
    ELSE IF LessThan(p, 20) THEN PositionCauses
    ELSE LayoutCauses
\* The list of likely causes, by the breakpoints 1 and 10.
CauseLines(p) ==
    IF LessThan(p, 1) THEN NoiseCauses
    ELSE IF LessThan(p, 10) THEN PositionCauses
    ELSE LayoutCauses

GenerateDifferenceDescription(result) ==
    <<Line("title", "comparison result", <<>>),
      Line("heading", "statistics", <<>>),
      Line("stat", "total pixels", <<result.totalPixels>>),
      Line("stat", "diff pixels", <<result.diffPixels>>),
      Line("stat", "diff percentage", ToFixed(result.diffPercentage, 2)),
      Line("stat", "threshold", ToFixed(ThresholdTimes100(result.metadata.threshold), 1)),
      Line("heading", "image size", <<>>),
      Line("size", "image 1", <<result.metadata.image1Size.width,
                                 result.metadata.image1Size.height>>),
      Line("size", "image 2", <<result.metadata.image2Size.width,
                                 result.metadata.image2Size.height>>),
      Line("heading", "analysis", <<>>),
      SeverityLine(result.diffPercentage),
      Line("heading", "likely causes", <<>>)>>
    \o CauseLines(result.diffPercentage)

--------------------------------------------------------------------------
(* compareImages, one action per synchronous segment *)

Idle(c) == pc[c] = "idle"

\* The buffers the later segments work on are the ones read at the start.
Image1Buffer(c) == local[c].image1Buffer
Image2BufferReadLate(c) == fs[params[c].image2Path]
Image2Buffer(c) == local[c].image2Buffer

\* A segment of call c ends in the catch block: the call throws, and the
\* catch block touches no file.
Fail(c, cause) ==
    /\ pc' = [pc EXCEPT ![c] = "failed"]
    /\ outcome' = [outcome EXCEPT ![c] = Thrown(cause)]
    /\ UNCHANGED <<fs, params, local, snapshot, wrote, lastWriter>>

\* The call, up to the first await: both files are read with readFileSync
\* and the metadata of the first is asked for.
Start(c, p) ==
    /\ Idle(c)
    /\ params' = [params EXCEPT ![c] = p]
    /\ snapshot' = [snapshot EXCEPT ![c] = fs]
    /\ IF ReadFileThrows(fs, p.image1Path) \/ ReadFileThrows(fs, p.image2Path)
       THEN /\ pc' = [pc EXCEPT ![c] = "failed"]
            /\ outcome' = [outcome EXCEPT ![c] = Thrown("ENOENT")]
            /\ UNCHANGED local
       ELSE /\ pc' = [pc EXCEPT ![c] = "metadata1"]
            /\ local' = [local EXCEPT ![c] =
                   [NoLocal EXCEPT !.image1Buffer = ReadFile(fs, p.image1Path),
                                   !.image2Buffer = ReadFile(fs, p.image2Path)]]
            /\ UNCHANGED outcome
    /\ UNCHANGED <<fs, wrote, lastWriter>>

\* sharp(image1Buffer).metadata() settles; the metadata of the second image
\* is asked for.
Metadata1(c) ==
    /\ pc[c] = "metadata1"
    /\ IF MetadataRejects(Image1Buffer(c))
       THEN Fail(c, "unsupported image format")
       ELSE /\ pc' = [pc EXCEPT ![c] = "metadata2"]
            /\ local' = [local EXCEPT ![c].image1Info = SharpMetadata(Image1Buffer(c))]
            /\ UNCHANGED <<fs, params, outcome, snapshot, wrote, lastWriter>>

\* sharp(image2Buffer).metadata() settles; the footprint is computed and the
\* resize of the first image is asked for.
Metadata2(c) ==
    /\ pc[c] = "metadata2"
    /\ IF MetadataRejects(Image2Buffer(c))
       THEN Fail(c, "unsupported image format")
       ELSE LET info2 == SharpMetadata(Image2Buffer(c))
                info1 == local[c].image1Info
            IN  /\ pc' = [pc EXCEPT ![c] = "resize1"]
                /\ local' = [local EXCEPT
                       ![c].image2Info = info2,
                       ![c].targetWidth = TargetDim(info1.width, info2.width),
                       ![c].targetHeight = TargetDim(info1.height, info2.height)]
                /\ UNCHANGED <<fs, params, outcome, snapshot, wrote, lastWriter>>

\* The resize of the first image settles (the library may reject it); the
\* resize of the second is asked for.
Resize1(c) ==
    /\ pc[c] = "resize1"
    /\ \E ok \in BOOLEAN :
          IF ~ok
          THEN Fail(c, "resize failed")
          ELSE /\ pc' = [pc EXCEPT ![c] = "resize2"]
               /\ local' = [local EXCEPT ![c].image1Resized =
                      Resize(Image1Buffer(c), local[c].targetWidth, local[c].targetHeight)]
               /\ UNCHANGED <<fs, params, outcome, snapshot, wrote, lastWriter>>

\* The resize of the second image settles; the mask buffer is allocated,
\* pixelmatch runs (it may throw) and the PNG encoding of the mask is asked
\* for.
Resize2(c) ==
    /\ pc[c] = "resize2"
    /\ \E ok \in BOOLEAN :
          IF ~ok
          THEN Fail(c, "resize failed")
          ELSE LET tw == local[c].targetWidth
                   th == local[c].targetHeight
                   resized == Resize(Image2Buffer(c), tw, th)
               IN  \E matched \in BOOLEAN :
                      IF ~matched
                      THEN Fail(c, "pixelmatch failed")
                      ELSE \E m \in PixelmatchOutcomes(local[c].image1Resized, resized,
                                                       tw * th, params[c].threshold) :
                              /\ pc' = [pc EXCEPT ![c] = "png"]
                              /\ local' = [local EXCEPT
                                     ![c].image2Resized = resized,
                                     ![c].diffBuffer = m.diffBuffer,
                                     ![c].diffPixels = m.diffPixels]
                              /\ UNCHANGED <<fs, params, outcome, snapshot, wrote,
                                             lastWriter>>

OutputPathDefaulted(c) ==
    IF params[c].outputPath = Undefined THEN Some("out.png") ELSE params[c].outputPath
\* The output location the call writes to: params.outputPath as given.
OutputPath(c) == params[c].outputPath

\* The rest of the body once the PNG encoding has succeeded: the result is
\* assembled, the diff image is written when an output path was given
\* (writeFileSync may throw), and the call returns.
Finish(c) ==
    LET tw == local[c].targetWidth
        th == local[c].targetHeight
        diffImageBuffer == PngEncode(local[c].diffBuffer, tw, th)
        result == ComparisonResult(local[c].diffPixels, tw, th, diffImageBuffer,
                                   local[c].image1Info, local[c].image2Info,
                                   params[c])
    IN  IF Truthy(OutputPath(c)) /\ ~Writable(OutputPath(c)[1])
        THEN Fail(c, "ENOENT")
        ELSE /\ pc' = [pc EXCEPT ![c] = "done"]
             /\ outcome' = [outcome EXCEPT ![c] = Returned(result)]
             /\ IF Truthy(OutputPath(c))
                THEN /\ fs' = [fs EXCEPT ![OutputPath(c)[1]] = diffImageBuffer]
                     /\ wrote' = [wrote EXCEPT ![c] = TRUE]
                     /\ lastWriter' = [lastWriter EXCEPT ![OutputPath(c)[1]] = c]
                ELSE UNCHANGED <<fs, wrote, lastWriter>>
             /\ UNCHANGED <<params, local, snapshot>>

PngWritesFirst(c) ==
    /\ pc[c] = "png"
    /\ \E encoded \in BOOLEAN :
          IF encoded
          THEN Finish(c)
          ELSE IF Truthy(OutputPath(c)) /\ Writable(OutputPath(c)[1])
               THEN /\ fs' = [fs EXCEPT ![OutputPath(c)[1]] =
                              Image(Undefined, Undefined, local[c].diffBuffer)]
                    /\ wrote' = [wrote EXCEPT ![c] = TRUE]
                    /\ lastWriter' = [lastWriter EXCEPT ![OutputPath(c)[1]] = c]
                    /\ pc' = [pc EXCEPT ![c] = "failed"]
                    /\ outcome' = [outcome EXCEPT ![c] = Thrown("png failed")]
                    /\ UNCHANGED <<params, local, snapshot>>
               ELSE Fail(c, "png failed")
\* The PNG encoding of the mask settles (the library may reject it).
Png(c) ==
    /\ pc[c] = "png"
    /\ \E encoded \in BOOLEAN :
          IF ~encoded THEN Fail(c, "png failed") ELSE Finish(c)

\* The caller has taken the result or the error; the call's frame is gone.
Settle(c) ==
    /\ pc[c] \in {"done", "failed"}
    /\ pc' = [pc EXCEPT ![c] = "idle"]
    /\ params' = [params EXCEPT ![c] = NoParams]
    /\ local' = [local EXCEPT ![c] = NoLocal]
    /\ outcome' = [outcome EXCEPT ![c] = Pending]
    /\ snapshot' = [snapshot EXCEPT ![c] = NoFiles]
    /\ wrote' = [wrote EXCEPT ![c] = FALSE]
    /\ lastWriter' = [p \in Paths |-> IF lastWriter[p] = c THEN "" ELSE lastWriter[p]]
    /\ UNCHANGED fs

--------------------------------------------------------------------------
(* WebCapture and FigmaCapture: the instance, its browser and its pages *)

\* The callers whose calls on the one instance may be in progress together.
Tasks == {"P", "Q"}

\* this.browser = null.
Null == 0

\* A URL, as far as parseFigmaUrl tells URLs apart: the site, the first
\* segment of the path and the segment after it.
Url(site, section, key) == [site |-> site, section |-> section, key |-> key]
FigmaFileUrl == Url("figma.com", "file", "example")
FigmaDesignUrl == Url("figma.com", "design", "example")
LocalUrl == Url("localhost:3000", "", "")

\* parseFigmaUrl: the file key of figma.com/file/<key> or
\* figjam.com/file/<key>, Undefined where the function throws.
parseFigmaUrl(url) ==
    IF /\ url.site \in {"figma.com", "figjam.com"}
       /\ url.section = "file"
       /\ url.key # ""
    THEN Some([fileKey |-> url.key])
    ELSE Undefined

WebCaptureParamsSet ==
    [url : {LocalUrl},
     waitForNetworkIdle : BOOLEAN,
     waitForTimeout : {0, 3000},
     waitForSelector : {Undefined, Some("#root")}]

\* FigmaCaptureParams has no waitForNetworkIdle.
FigmaCaptureParamsSet ==
    [url : {FigmaFileUrl, FigmaDesignUrl},
     waitForNetworkIdle : {FALSE},
     waitForTimeout : {3000},
     waitForSelector : {Undefined, Some("canvas")}]

NoCaptureParams ==
    [url |-> LocalUrl, waitForNetworkIdle |-> FALSE, waitForTimeout |-> 0,
     waitForSelector |-> Undefined]

\* A call in progress: the method called, the number of the call, the
\* browser its pending newPage() or close() was called on, its page.
CLocal(op, call, target, page) ==
    [op |-> op, call |-> call, target |-> target, page |-> page]
NoCLocal == CLocal("", 0, Null, 0)

NotCalled == [status |-> "none", message |-> <<>>]
CReturned == [status |-> "returned", message |-> <<>>]

\* initialize and close have no catch: what they threw reaches the caller.
Rejected(cause) == [status |-> "thrown", message |-> <<cause>>]

\* The catch of captureWebPage and captureFigmaDesign.
CaptureFailed(cause) ==
    [status |-> "thrown",
     message |-> <<(IF class = "web" THEN "web capture failed: "
                                      ELSE "Figma capture failed: "), cause>>]

PageOf(id, b) == [id |-> id, browser |-> b]
PageIsOpen(id) == \E p \in openPages : p.id = id

InitCapture(classes) ==
    /\ class \in classes
    /\ browser = Null
    /\ openBrowsers = {}
    /\ openPages = {}
    /\ calls = 0
    /\ cpc = [t \in Tasks |-> "idle"]
    /\ cparams = [t \in Tasks |-> NoCaptureParams]
    /\ clocal = [t \in Tasks |-> NoCLocal]
    /\ coutcome = [t \in Tasks |-> NotCalled]

\* The per-task state after a step of the task's call.
Task(t, at, p, loc, out) ==
    /\ cpc' = [cpc EXCEPT ![t] = at]
    /\ cparams' = [cparams EXCEPT ![t] = p]
    /\ clocal' = [clocal EXCEPT ![t] = loc]
    /\ coutcome' = [coutcome EXCEPT ![t] = out]

\* The call goes on to its next await.
Await(t, at, loc) == Task(t, at, cparams[t], loc, NotCalled)

\* The call returns or throws.
Settled(t, out) == Task(t, "idle", NoCaptureParams, NoCLocal, out)

\* A task that has no call in progress makes its next call.
Calling(t) ==
    /\ cpc[t] = "idle"
    /\ calls < MaxCalls
    /\ calls' = calls + 1

\* initialize(), called on its own, up to `await puppeteer.launch(...)`.
Initialize(t) ==
    /\ Calling(t)
    /\ IF browser = Null
       THEN Task(t, "launch", NoCaptureParams,
                 CLocal("initialize", calls + 1, Null, 0), NotCalled)
       ELSE Settled(t, CReturned)
    /\ UNCHANGED <<class, browser, openBrowsers, openPages>>

\* captureWebPage / captureFigmaDesign up to the first await: the call of
\* this.initialize() runs up to its own await, or returns at once.
Capture(t, p) ==
    /\ Calling(t)
    /\ Task(t, (IF browser = Null THEN "launch" ELSE "initialized"), p,
            CLocal("capture", calls + 1, Null, 0), NotCalled)
    /\ UNCHANGED <<class, browser, openBrowsers, openPages>>

captureWebPage(t, p) == class = "web" /\ Capture(t, p)
captureFigmaDesign(t, p) == class = "figma" /\ Capture(t, p)

\* `this.browser = await puppeteer.launch(...)`: the browser is launched and
\* assigned to the handle, or the launch fails.
Launch(t) ==
    /\ cpc[t] = "launch"
    /\ \E ok \in BOOLEAN :
          IF ok
          THEN /\ browser' = clocal[t].call
               /\ openBrowsers' = openBrowsers \cup {clocal[t].call}
               /\ IF clocal[t].op = "initialize"
                  THEN Settled(t, CReturned)
                  ELSE Await(t, "initialized", clocal[t])
          ELSE /\ UNCHANGED <<browser, openBrowsers>>
               /\ Settled(t, IF clocal[t].op = "initialize"
                             THEN Rejected("launch")
                             ELSE CaptureFailed("launch"))
    /\ UNCHANGED <<class, openPages, calls>>

\* After `await this.initialize()`: the test of this.browser and the call
\* of this.browser.newPage().
Initialized(t) ==
    /\ cpc[t] = "initialized"
    /\ IF browser = Null
       THEN Settled(t, CaptureFailed("browser not initialized"))
       ELSE Await(t, "newPage", [clocal[t] EXCEPT !.target = browser])
    /\ UNCHANGED <<class, browser, openBrowsers, openPages, calls>>

\* `const page = await this.browser.newPage()`; in captureFigmaDesign
\* parseFigmaUrl(params.url) follows before the next await.
NewPage(t) ==
    /\ cpc[t] = "newPage"
    /\ IF clocal[t].target \in openBrowsers
       THEN /\ openPages' = openPages
                              \cup {PageOf(clocal[t].call, clocal[t].target)}
            /\ IF class = "figma" /\ parseFigmaUrl(cparams[t].url) = Undefined
               THEN Settled(t, CaptureFailed("Invalid Figma URL format"))
               ELSE Await(t, "setViewport",
                          [clocal[t] EXCEPT !.page = clocal[t].call])
       ELSE /\ UNCHANGED openPages
            /\ Settled(t, CaptureFailed("newPage"))
    /\ UNCHANGED <<class, browser, openBrowsers, calls>>

\* The await that follows each await on the page.
AfterWaits(p) ==
    IF Truthy(p.waitForSelector) THEN "waitForSelector" ELSE "screenshot"
AfterNetworkIdle(p) ==
    IF p.waitForTimeout > 0 THEN "waitForTimeout" ELSE AfterWaits(p)
AfterGoto(p) ==
    IF class = "figma" THEN "waitForFigmaLoad"
    ELSE IF p.waitForNetworkIdle THEN "waitForNetworkIdle"
    ELSE AfterNetworkIdle(p)
AfterScreenshot == IF class = "figma" THEN "pageClose" ELSE "evaluate"

\* An awaited call on the page.  It rejects when the page is closed, and
\* where `outcomes` says so it may reject on an open page (a timeout); a
\* rejection inside a try of its own is logged and the capture goes on.
PageAwait(t, step, outcomes, caught, next) ==
    /\ cpc[t] = step
    /\ \E ok \in outcomes :
          IF (ok /\ PageIsOpen(clocal[t].page)) \/ caught
          THEN Await(t, next, clocal[t])
          ELSE Settled(t, CaptureFailed(step))
    /\ UNCHANGED <<class, browser, openBrowsers, openPages, calls>>

SetViewport(t) ==
    PageAwait(t, "setViewport", {TRUE}, FALSE,
              IF class = "figma" THEN "goto" ELSE "setUserAgent")
SetUserAgent(t) == PageAwait(t, "setUserAgent", {TRUE}, FALSE, "goto")
Goto(t) == PageAwait(t, "goto", BOOLEAN, FALSE, AfterGoto(cparams[t]))
WaitForNetworkIdle(t) ==
    PageAwait(t, "waitForNetworkIdle", BOOLEAN, TRUE,
              AfterNetworkIdle(cparams[t]))
WaitForTimeout(t) ==
    PageAwait(t, "waitForTimeout", {TRUE}, FALSE, AfterWaits(cparams[t]))
waitForFigmaLoad(t) ==
    PageAwait(t, "waitForFigmaLoad", BOOLEAN, TRUE, AfterWaits(cparams[t]))
WaitForSelector(t) ==
    PageAwait(t, "waitForSelector", BOOLEAN, class = "web", "screenshot")
Screenshot(t) == PageAwait(t, "screenshot", BOOLEAN, FALSE, AfterScreenshot)
Evaluate(t) == PageAwait(t, "evaluate", BOOLEAN, FALSE, "pageClose")

\* `await page.close()` and the return of the capture.
PageClose(t) ==
    /\ cpc[t] = "pageClose"
    /\ IF PageIsOpen(clocal[t].page)
       THEN /\ openPages' = {p \in openPages : p.id # clocal[t].page}
            /\ Settled(t, CReturned)
       ELSE /\ UNCHANGED openPages
            /\ Settled(t, CaptureFailed("pageClose"))
    /\ UNCHANGED <<class, browser, openBrowsers, calls>>

\* close() up to `await this.browser.close()`.
Close(t) ==
    /\ Calling(t)
    /\ IF browser # Null
       THEN Task(t, "browserClose", NoCaptureParams,
                 CLocal("close", calls + 1, browser, 0), NotCalled)
       ELSE Settled(t, CReturned)
    /\ UNCHANGED <<class, browser, openBrowsers, openPages>>

\* `await this.browser.close()` closes the browser with its pages; then
\* `this.browser = null`.
BrowserClose(t) ==
    /\ cpc[t] = "browserClose"
    /\ openBrowsers' = openBrowsers \ {clocal[t].target}
    /\ openPages' = {p \in openPages : p.browser # clocal[t].target}
    /\ browser' = Null
    /\ Settled(t, CReturned)
    /\ UNCHANGED <<class, calls>>

--------------------------------------------------------------------------
(* Specifications *)

InitCalls(files) ==
    /\ fs \in files
    /\ pc = [c \in Calls |-> "idle"]
    /\ params = [c \in Calls |-> NoParams]
    /\ local = [c \in Calls |-> NoLocal]
    /\ outcome = [c \in Calls |-> Pending]
    /\ snapshot = [c \in Calls |-> NoFiles]
    /\ wrote = [c \in Calls |-> FALSE]
    /\ lastWriter = [p \in Paths |-> ""]

Init ==
    /\ InitCalls(InitialFs)
    /\ descInput = NoResult
    /\ description = <<>>
    /\ InitCapture({"web"})

\* One caller, one call after the other, any request.
Next ==
    \/ \E p \in ParamsSet : Start("A", p) /\ UNCHANGED <<descVars, capVars>>
    \/ Metadata1("A") /\ UNCHANGED <<descVars, capVars>>
    \/ Metadata2("A") /\ UNCHANGED <<descVars, capVars>>
    \/ Resize1("A") /\ UNCHANGED <<descVars, capVars>>
    \/ Resize2("A") /\ UNCHANGED <<descVars, capVars>>
    \/ Png("A") /\ UNCHANGED <<descVars, capVars>>
    \/ Settle("A") /\ UNCHANGED <<descVars, capVars>>

Spec == Init /\ [][Next]_vars

\* Two callers at once, with requests that share files: out.png is an output
\* of either call and an input of either.
ConcPaths == {"a.png", "out.png"}
ConcParamsSet ==
    [image1Path : ConcPaths, image2Path : ConcPaths,
     threshold : {Some(1)},
     outputPath : {Undefined, Some("out.png")}]

NextConc ==
    \/ \E c \in Calls, p \in ConcParamsSet : Start(c, p) /\ UNCHANGED <<descVars, capVars>>
    \/ \E c \in Calls : Metadata1(c) /\ UNCHANGED <<descVars, capVars>>
    \/ \E c \in Calls : Metadata2(c) /\ UNCHANGED <<descVars, capVars>>
    \/ \E c \in Calls : Resize1(c) /\ UNCHANGED <<descVars, capVars>>
    \/ \E c \in Calls : Resize2(c) /\ UNCHANGED <<descVars, capVars>>
    \/ \E c \in Calls : Png(c) /\ UNCHANGED <<descVars, capVars>>
    \/ \E c \in Calls : Settle(c) /\ UNCHANGED <<descVars, capVars>>

InitConc ==
    /\ InitCalls({f \in InitialFs : f["a.png"].width = Some(MaxDim)
                                     /\ f["a.png"].height = Some(MaxDim)})
    /\ descInput = NoResult
    /\ description = <<>>
    /\ InitCapture({"web"})

SpecConc == InitConc /\ [][NextConc]_vars

--------------------------------------------------------------------------
(* Comparisons with thresholds in [0, 1], an image against itself among them *)

SelfPaths == {"a.png", "b.png", "nodim.png", "out.png"}
SelfParamsSet ==
    [image1Path : SelfPaths, image2Path : SelfPaths,
     threshold : {Some(0), Some(1), Some(5), Some(10)},
     outputPath : {Undefined, Some("out.png")}]

InitSelf ==
    /\ InitCalls(FilesUpTo(MaxSelfDim))
    /\ descInput = NoResult
    /\ description = <<>>
    /\ InitCapture({"web"})

NextSelf ==
    \/ \E p \in SelfParamsSet : Start("A", p) /\ UNCHANGED <<descVars, capVars>>
    \/ Metadata1("A") /\ UNCHANGED <<descVars, capVars>>
    \/ Metadata2("A") /\ UNCHANGED <<descVars, capVars>>
    \/ Resize1("A") /\ UNCHANGED <<descVars, capVars>>
    \/ Resize2("A") /\ UNCHANGED <<descVars, capVars>>
    \/ Png("A") /\ UNCHANGED <<descVars, capVars>>
    \/ Settle("A") /\ UNCHANGED <<descVars, capVars>>

SpecSelf == InitSelf /\ [][NextSelf]_vars

--------------------------------------------------------------------------
(* Calls of initialize, a capture and close on one capture instance, those *)
(* of two tasks interleaved at the awaits                                  *)

InitCapturing ==
    /\ InitCalls({f \in InitialFs : f["a.png"].width = Some(MaxDim)
                                     /\ f["a.png"].height = Some(MaxDim)})
    /\ descInput = NoResult
    /\ description = <<>>
    /\ InitCapture({"web", "figma"})

NextCapturing ==
    \/ \E t \in Tasks : Initialize(t) /\ UNCHANGED <<callVars, descVars>>
    \/ \E t \in Tasks, p \in WebCaptureParamsSet :
          captureWebPage(t, p) /\ UNCHANGED <<callVars, descVars>>
    \/ \E t \in Tasks, p \in FigmaCaptureParamsSet :
          captureFigmaDesign(t, p) /\ UNCHANGED <<callVars, descVars>>
    \/ \E t \in Tasks : Launch(t) /\ UNCHANGED <<callVars, descVars>>
    \/ \E t \in Tasks : Initialized(t) /\ UNCHANGED <<callVars, descVars>>
    \/ \E t \in Tasks : NewPage(t) /\ UNCHANGED <<callVars, descVars>>
    \/ \E t \in Tasks : SetViewport(t) /\ UNCHANGED <<callVars, descVars>>
    \/ \E t \in Tasks : SetUserAgent(t) /\ UNCHANGED <<callVars, descVars>>
    \/ \E t \in Tasks : Goto(t) /\ UNCHANGED <<callVars, descVars>>
    \/ \E t \in Tasks : WaitForNetworkIdle(t) /\ UNCHANGED <<callVars, descVars>>
    \/ \E t \in Tasks : WaitForTimeout(t) /\ UNCHANGED <<callVars, descVars>>
    \/ \E t \in Tasks : waitForFigmaLoad(t) /\ UNCHANGED <<callVars, descVars>>
    \/ \E t \in Tasks : WaitForSelector(t) /\ UNCHANGED <<callVars, descVars>>
    \/ \E t \in Tasks : Screenshot(t) /\ UNCHANGED <<callVars, descVars>>
    \/ \E t \in Tasks : Evaluate(t) /\ UNCHANGED <<callVars, descVars>>
    \/ \E t \in Tasks : PageClose(t) /\ UNCHANGED <<callVars, descVars>>
    \/ \E t \in Tasks : Close(t) /\ UNCHANGED <<callVars, descVars>>
    \/ \E t \in Tasks : BrowserClose(t) /\ UNCHANGED <<callVars, descVars>>

SpecCapturing == InitCapturing /\ [][NextCapturing]_vars

--------------------------------------------------------------------------
(* generateDifferenceDescription on its own *)

\* Results of comparing 100,000 pixels: n differing pixels are n thousandths
\* of a percent.  One more result has the NaN percentage of an empty
\* footprint.
DescInputs ==
    { [NoResult EXCEPT !.diffPixels = n,
                       !.totalPixels = 100000,
                       !.diffPercentage = DiffPercentage(n, 100000),
                       !.metadata = [image1Size |-> [width |-> 500, height |-> 200],
                                     image2Size |-> [width |-> 400, height |-> 250],
                                     threshold |-> t]]
      : n \in 0..MaxMilliPct, t \in {Undefined, Some(1)} }
    \cup {NoResult}

InitDesc ==
    /\ InitCalls({f \in InitialFs : f["a.png"].width = Some(MaxDim)
                                     /\ f["a.png"].height = Some(MaxDim)})
    /\ descInput \in DescInputs
    /\ description = <<>>
    /\ InitCapture({"web"})

Describe ==
    /\ description = <<>>
    /\ description' = GenerateDifferenceDescription(descInput)
    /\ UNCHANGED <<descInput, callVars, capVars>>

NextDesc == Describe

SpecDesc == InitDesc /\ [][NextDesc]_vars

--------------------------------------------------------------------------
(* Properties *)

\* The files a call in progress named as its sources, as they were when the
\* call was made.
Source1(c) == snapshot[c][params[c].image1Path]
Source2(c) == snapshot[c][params[c].image2Path]
HasSize(f) == f.kind = "image" /\ f.width # Undefined /\ f.height # Undefined
ReturnedCall(c) == pc[c] = "done" /\ outcome[c].status = "returned"
FailedCall(c) == pc[c] = "failed" /\ outcome[c].status = "threw"

\* C1: every call that returns reports totalPixels = min(w1,w2) * min(h1,h2)
\* for sources of sizes (w1,h1) and (w2,h2), a footprint no larger than
\* either source in either dimension, and 0 <= diffPixels <= totalPixels.
C1_Footprint ==
    \A c \in Calls :
        ReturnedCall(c) =>
            LET r == outcome[c].result
            IN  /\ 0 <= r.diffPixels
                /\ r.diffPixels <= r.totalPixels
                /\ (HasSize(Source1(c)) /\ HasSize(Source2(c))) =>
                      LET w1 == Source1(c).width[1]
                          h1 == Source1(c).height[1]
                          w2 == Source2(c).width[1]
                          h2 == Source2(c).height[1]
                      IN  /\ r.totalPixels = Min(w1, w2) * Min(h1, h2)
                          /\ local[c].targetWidth <= w1
                          /\ local[c].targetWidth <= w2
                          /\ local[c].targetHeight <= h1
                          /\ local[c].targetHeight <= h2

\* A call has returned for two sources where the first is the wider and the
\* second the taller one, with some but not all pixels differing.
C1_Witness ==
    \E c \in Calls :
        /\ ReturnedCall(c)
        /\ HasSize(Source1(c)) /\ HasSize(Source2(c))
        /\ Source1(c).width[1] > Source2(c).width[1]
        /\ Source1(c).height[1] < Source2(c).height[1]
        /\ outcome[c].result.totalPixels = Source2(c).width[1] * Source1(c).height[1]

C1_WitnessPartial ==
    \E c \in Calls :
        /\ ReturnedCall(c)
        /\ 0 < outcome[c].result.diffPixels
        /\ outcome[c].result.diffPixels < outcome[c].result.totalPixels

Described == description # <<>>
\* The described percentage in thousandths of a percent (the sample results
\* compare 100,000 pixels).
OnGrid == descInput.totalPixels = 100000
MilliPct == descInput.diffPixels
SeverityLines == SelectSeq(description, LAMBDA l : l.kind = "severity")
CauseLinesOf == SelectSeq(description, LAMBDA l : l.kind = "cause")
SeverityAt(n, text) ==
    (Described /\ OnGrid /\ MilliPct = n) => SeverityLines = <<Line("severity", text, <<>>)>>

\* C2: the description holds exactly one severity line for every
\* diffPercentage p: negligible for p < 1, minor for 1 <= p < 5, substantial
\* for 5 <= p < 20, major for p >= 20; 0.99, 1.0, 4.999, 5.0, 19.999 and 20.0
\* are negligible, minor, minor, substantial, substantial and major.
C2_Severity ==
    /\ Described => Len(SeverityLines) = 1
    /\ (Described /\ OnGrid) =>
          SeverityLines[1].text =
              IF MilliPct < 1000 THEN "negligible"
              ELSE IF MilliPct < 5000 THEN "minor"
              ELSE IF MilliPct < 20000 THEN "substantial"
              ELSE "major"
    /\ SeverityAt(990, "negligible")
    /\ SeverityAt(1000, "minor")
    /\ SeverityAt(4999, "minor")
    /\ SeverityAt(5000, "substantial")
    /\ SeverityAt(19999, "substantial")
    /\ SeverityAt(20000, "major")

\* The result with diffPercentage 1.0 has been described as minor.
C2_Witness ==
    /\ Described /\ OnGrid /\ MilliPct = 1000
    /\ SeverityLines[1].text = "minor"

\* C3 as claimed: the severity of the description determines its list of
\* causes: the noise list for negligible, the positioning list for minor and
\* substantial, the layout list for major.
C3_CausesBySeverity ==
    Described =>
        CauseLinesOf =
            IF SeverityLines[1].text = "negligible" THEN NoiseCauses
            ELSE IF SeverityLines[1].text \in {"minor", "substantial"} THEN PositionCauses
            ELSE LayoutCauses

\* C3, amended: the list of causes is chosen by the breakpoints 1 and 10: the
\* noise list for p < 1, the positioning list for 1 <= p < 10, the layout
\* list for p >= 10 (so also for a substantial result of 10 <= p < 20) and
\* for a percentage that is not a number.
C3_CausesByOwnBreakpoints ==
    /\ (Described /\ OnGrid) =>
          CauseLinesOf =
              IF MilliPct < 1000 THEN NoiseCauses
              ELSE IF MilliPct < 10000 THEN PositionCauses
              ELSE LayoutCauses
    /\ (Described /\ descInput.diffPercentage.den = 0) => CauseLinesOf = LayoutCauses

\* A substantial result of 10 <= p < 20 has been described with the layout
\* list.
C3_Witness ==
    /\ Described /\ OnGrid
    /\ MilliPct >= 10000 /\ MilliPct < 20000
    /\ SeverityLines[1].text = "substantial"
    /\ CauseLinesOf = LayoutCauses

\* C4: a call that has failed has written nothing and has left the file
\* system as it was when it was made; a call that has written has returned,
\* all of its steps done, and the file holds the diff image it returned.
C4_WriteOnlyOnSuccess ==
    \A c \in Calls :
        /\ FailedCall(c) => (~wrote[c] /\ fs = snapshot[c])
        /\ wrote[c] =>
              /\ ReturnedCall(c)
              /\ fs[params[c].outputPath[1]] =
                     Base64Decode(outcome[c].result.diffImageData)

\* A call with a writable output path has failed at the encoding of the diff
\* image, its last step before the write.
C4_Witness ==
    \E c \in Calls :
        /\ FailedCall(c)
        /\ outcome[c].error.cause = "png failed"
        /\ params[c].outputPath = Some("out.png")

\* C5 as claimed: a request is validated against ImageComparisonSchema
\* before use: a call with a threshold outside [0, 1] fails before it reads
\* an image, and a call without a threshold compares and reports with 0.1.
C5_ValidatedBeforeUse ==
    \A c \in Calls :
        /\ (~Idle(c) /\ ~SchemaAccepts(params[c])) =>
              /\ FailedCall(c)
              /\ local[c].image1Buffer = Absent
              /\ local[c].image2Buffer = Absent
        /\ ReturnedCall(c) =>
              outcome[c].result.metadata.threshold = SchemaParse(params[c]).threshold

\* C6: no step of a call made without outputPath changes the file system;
\* the diff image of such a call is the base64 field of its result.
C6_NoOutputPathNoWrite ==
    [][\A c \in Calls :
          LET given == IF Idle(c) THEN params'[c].outputPath ELSE params[c].outputPath
          IN  (pc'[c] # pc[c] /\ given = Undefined) =>
                 /\ fs' = fs
                 /\ wrote'[c] = FALSE
                 /\ (pc'[c] = "done" =>
                        Base64Decode(outcome'[c].result.diffImageData) =
                            PngEncode(local[c].diffBuffer, local[c].targetWidth,
                                      local[c].targetHeight))]_vars

\* A call made without outputPath has returned a result, the file system
\* being as it was when the call was made.
C6_Witness ==
    \E c \in Calls :
        /\ ReturnedCall(c)
        /\ params[c].outputPath = Undefined
        /\ outcome[c].result.totalPixels > 0
        /\ fs = snapshot[c]

\* The kind of failure the claimed taxonomy gives to a failed call.
ClaimedKind(c) ==
    IF ReadFileThrows(snapshot[c], params[c].image1Path)
       \/ ReadFileThrows(snapshot[c], params[c].image2Path)
    THEN "IOError"
    ELSE IF MetadataRejects(Source1(c)) \/ MetadataRejects(Source2(c))
    THEN "DecodeError"
    ELSE "ComparisonError"

\* C7 as claimed: a failed call has thrown an IOError when a source could
\* not be read, a DecodeError when a source is no image, a ComparisonError
\* otherwise.
C7_FailuresByKind ==
    \A c \in Calls : FailedCall(c) => outcome[c].error.name = ClaimedKind(c)

\* C7, amended: every failure is thrown as one kind, a plain Error, whose
\* message is a fixed prefix followed by the message of the underlying
\* failure; an unreadable source and an undecodable one differ in that
\* message only.
C7_OneKindWithCause ==
    \A c \in Calls :
        FailedCall(c) =>
            /\ outcome[c].error.name = "Error"
            /\ outcome[c].error.prefix = "compare failed: "
            /\ ClaimedKind(c) = "IOError" => outcome[c].error.cause = "ENOENT"
            /\ ClaimedKind(c) = "DecodeError" =>
                  outcome[c].error.cause = "unsupported image format"
            /\ ClaimedKind(c) = "ComparisonError" =>
                  outcome[c].error.cause \notin {"unsupported image format"}

\* A call has failed on a source that is no image.
C7_Witness ==
    \E c \in Calls :
        /\ FailedCall(c)
        /\ ClaimedKind(c) = "DecodeError"
        /\ outcome[c].error.name = "Error"

\* Both sources of the call are images and one of them reports no width or
\* no height.
MissingSize(c) ==
    /\ ~Idle(c)
    /\ Source1(c).kind = "image" /\ Source2(c).kind = "image"
    /\ ~(HasSize(Source1(c)) /\ HasSize(Source2(c)))

\* C8 as claimed: a call on an image that reports no width or no height
\* fails with a decode error once the metadata is read, never goes on with
\* an empty footprint, and writes nothing; no result has totalPixels = 0.
C8_MissingSizeRejected ==
    \A c \in Calls :
        /\ (MissingSize(c) /\ pc[c] \notin {"idle", "metadata1", "metadata2"}) =>
              /\ FailedCall(c)
              /\ outcome[c].error.cause = "unsupported image format"
              /\ ~wrote[c]
        /\ ReturnedCall(c) => outcome[c].result.totalPixels # 0

\* What a call returns or throws when no other call runs: the outcomes of
\* compareImages(p) on the file system files.
CompareAlone(files, p) ==
    IF ReadFileThrows(files, p.image1Path) \/ ReadFileThrows(files, p.image2Path)
    THEN {Thrown("ENOENT")}
    ELSE LET b1 == ReadFile(files, p.image1Path)
             b2 == ReadFile(files, p.image2Path)
         IN  IF MetadataRejects(b1) \/ MetadataRejects(b2)
             THEN {Thrown("unsupported image format")}
             ELSE LET i1 == SharpMetadata(b1)
                      i2 == SharpMetadata(b2)
                      tw == Min(OrZero(i1.width), OrZero(i2.width))
                      th == Min(OrZero(i1.height), OrZero(i2.height))
                  IN  { IF Truthy(p.outputPath) /\ ~Writable(p.outputPath[1])
                        THEN Thrown("ENOENT")
                        ELSE Returned(ComparisonResult(m.diffPixels, tw, th,
                                         PngEncode(m.diffBuffer, tw, th), i1, i2, p))
                        : m \in PixelmatchOutcomes(Resize(b1, tw, th), Resize(b2, tw, th),
                                                   tw * th, p.threshold) }
                      \cup {Thrown("resize failed"), Thrown("pixelmatch failed"),
                            Thrown("png failed")}

\* C9: whatever the interleaving of two calls, each call returns or throws
\* what it would alone on the files as they were when it was made, and a
\* file written by calls holds the whole diff image the last of them
\* returned.
C9_NoInterference ==
    /\ \A c \in Calls :
          pc[c] \in {"done", "failed"} =>
              outcome[c] \in CompareAlone(snapshot[c], params[c])
    /\ \A path \in Paths :
          lastWriter[path] # "" =>
              LET c == lastWriter[path]
              IN  /\ ReturnedCall(c)
                  /\ params[c].outputPath = Some(path)
                  /\ \E o \in CompareAlone(snapshot[c], params[c]) :
                        /\ o.status = "returned"
                        /\ fs[path] = Base64Decode(o.result.diffImageData)
                        /\ fs[path] = Base64Decode(outcome[c].result.diffImageData)

\* Two calls with different requests and the same outputPath ran at the same
\* time and both returned, with different diff images; B wrote last.
C9_Witness ==
    /\ ReturnedCall("A") /\ ReturnedCall("B")
    /\ params["A"] # params["B"]
    /\ params["A"].outputPath = Some("out.png")
    /\ params["B"].outputPath = Some("out.png")
    /\ wrote["A"] /\ wrote["B"]
    /\ lastWriter["out.png"] = "B"
    /\ outcome["A"].result.diffImageData # outcome["B"].result.diffImageData
    /\ snapshot["A"] = snapshot["B"]

\* C10: the metadata of a returned result holds the width and height of each
\* source as stored, not the footprint, and the threshold the call was made
\* with, which is the one the differing pixels were counted with.
C10_Metadata ==
    \A c \in Calls :
        (ReturnedCall(c) /\ HasSize(Source1(c)) /\ HasSize(Source2(c))) =>
            LET md == outcome[c].result.metadata
            IN  /\ md.image1Size = [width |-> Source1(c).width[1],
                                    height |-> Source1(c).height[1]]
                /\ md.image2Size = [width |-> Source2(c).width[1],
                                    height |-> Source2(c).height[1]]
                /\ md.threshold = params[c].threshold
                /\ \E m \in PixelmatchOutcomes(local[c].image1Resized,
                                               local[c].image2Resized,
                                               outcome[c].result.totalPixels,
                                               md.threshold) :
                       m.diffPixels = outcome[c].result.diffPixels

\* A call has returned whose footprint is smaller than its first source.
C10_Witness ==
    \E c \in Calls :
        /\ ReturnedCall(c)
        /\ HasSize(Source1(c)) /\ HasSize(Source2(c))
        /\ params[c].threshold # Undefined
        /\ outcome[c].result.totalPixels <
               Source1(c).width[1] * Source1(c).height[1]
        /\ outcome[c].result.metadata.image1Size.width > local[c].targetWidth

\* The image reports a width and a height, neither of them 0.
NonEmpty(f) == HasSize(f) /\ f.width[1] > 0 /\ f.height[1] > 0

\* C11: a call that compares an image of some width and height with itself
\* (the same source as image1 and image2, any threshold in [0, 1]) returns
\* diffPixels = 0 and a diffPercentage of exactly 0; the diffPercentage of
\* every result over at least one pixel is the quotient
\* 100 * diffPixels / totalPixels, not its integer part.
C11_SelfComparison ==
    \A c \in Calls :
        ReturnedCall(c) =>
            LET r == outcome[c].result
            IN  /\ (params[c].image1Path = params[c].image2Path /\ NonEmpty(Source1(c))) =>
                      /\ r.diffPixels = 0
                      /\ r.diffPercentage.den # 0
                      /\ r.diffPercentage.num = 0
                /\ r.totalPixels # 0 =>
                      /\ r.diffPercentage.den # 0
                      /\ r.diffPercentage.num * r.totalPixels =
                             100 * r.diffPixels * r.diffPercentage.den

\* A striped image has been compared with itself, with the threshold 0.
C11_Witness ==
    \E c \in Calls :
        /\ ReturnedCall(c)
        /\ params[c].image1Path = "a.png" /\ params[c].image2Path = "a.png"
        /\ params[c].threshold = Some(0)
        /\ outcome[c].result.totalPixels = MaxSelfDim * MaxSelfDim
        /\ outcome[c].result.diffPixels = 0
        /\ \E i \in DOMAIN local[c].image1Resized : local[c].image1Resized[i] # 0

\* A result whose percentage is no whole number: two of three pixels differ.
C11_WitnessFraction ==
    \E c \in Calls :
        /\ ReturnedCall(c)
        /\ outcome[c].result.totalPixels = 3
        /\ outcome[c].result.diffPixels = 2

\* The call of task t on the capture instance is in progress.
InCall(t) == cpc[t] # "idle"

\* C12: under any interleaving of initialize, capture and close calls on one
\* capture instance, at most one browser launched by the instance is open at
\* any time, and an open browser is the one this.browser refers to, so that
\* a later close() closes it.
C12_OneBrowser ==
    /\ Cardinality(openBrowsers) <= 1
    /\ \A b \in openBrowsers : browser = b

\* C13: every open page is the page of a capture that is still in progress:
\* a capture that has returned or thrown has left no page open.
C13_NoPageLeftOpen ==
    \A p \in openPages : \E t \in Tasks : InCall(t) /\ clocal[t].call = p.id

==========================================================================
